---- MODULE Spec2Model ----
(***************************************************************************)
(* Content workflow of the dashboard: the item store kept by App           *)
(* (src/App.tsx), the library view (src/components/ContentLibraryView.tsx) *)
(* with its publish and bulk-schedule dialogs, and the edit path through   *)
(* NewContentView (src/components/NewContentView.tsx).                     *)
(*                                                                         *)
(* Conventions.  A React state that is "null" or an object is a sequence   *)
(* of length 0 or 1.  An optional field of an item that is absent (the key *)
(* was never written) is 0, "none" or <<>>.  Dates are counted in whole    *)
(* days.  Every store record carries a field uid that the program does not *)
(* have: it names the record, so that two states can be compared item by   *)
(* item although items are prepended, removed, and may share an id.        *)
(***************************************************************************)
EXTENDS Integers, Sequences, FiniteSets, TLC

VARIABLES
    currentUser,        \* App: id of the logged-in user, or NoUser
    currentView,        \* App: the view shown in <main>
    library,            \* App: the item store, newest first
    notification,       \* App: the notification on display (0 or 1)
    editingContent,     \* App: the item handed to NewContentView for editing
    typeFilter,         \* ContentLibraryView: 'all' or a type
    statusFilter,       \* ContentLibraryView: 'all' or a status
    searchTerm,         \* ContentLibraryView: the text of the search box
    isPublishModalOpen, \* ContentLibraryView
    isScheduleModalOpen,\* ContentLibraryView
    contentToPublish,   \* ContentLibraryView: snapshot taken by handlePublishClick
    isPublishing,       \* ContentLibraryView
    selectedItems,      \* ContentLibraryView: Set<string> in insertion order
    generatedContent,   \* NewContentView: null, one item, or an array of items
    isGenerating,       \* NewContentView: kind of the generate call awaited, or "none"
    publishCalls,       \* publishContent calls that have not settled yet
    lastOp              \* the handler that ran last and the path it took

vars == << currentUser, currentView, library, notification, editingContent,
           isPublishModalOpen, isScheduleModalOpen, contentToPublish,
           isPublishing, selectedItems, generatedContent, isGenerating,
           publishCalls, lastOp, typeFilter, statusFilter, searchTerm >>

appVars  == << currentUser, currentView, library, notification, editingContent >>
viewVars == << isPublishModalOpen, isScheduleModalOpen, contentToPublish,
               isPublishing, selectedItems >>
filterVars == << typeFilter, statusFilter, searchTerm >>
newVars  == << generatedContent, isGenerating >>

----------------------------------------------------------------------------
(* Bounds *)

InitItems    == 2   \* items in the persisted library that is loaded at start
MaxItems     == 2   \* records the store may hold
MaxId        == 3   \* ids the generators may hand out
MaxInFlight  == 1   \* publish calls awaited at the same time
MaxStart     == 1   \* latest start day offered to the bulk scheduler
MaxInterval  == 2   \* largest interval offered to the bulk scheduler
MaxPostId    == 1   \* post ids the site may answer with
MaxQueryItems == 2  \* items of a library that the filters are tried on
MaxQueryTitle == 3  \* titles of those items
MaxSearch    == 30  \* texts typed into the search box

----------------------------------------------------------------------------
(* Users, sites, statuses *)

NoUser == "none"
Users  == {"w1", "w2", "e1"}

Statuses == {"draft", "needs-review", "approved", "scheduled", "published"}
Types    == {"article", "product"}
Views    == {"dashboard", "new-content", "library"}
Sites    == {"site-ok", "site-publish-fail"}

RoleOf(u) == IF u = "e1" THEN "editor" ELSE "writer"

userIsEditor == currentUser # NoUser /\ RoleOf(currentUser) = "editor"

----------------------------------------------------------------------------
(* Items *)

\* GeneratedContent: the fields the workflow reads or writes.  A title is a
\* number; the generators are taken to give every item a title of its own.
\* wordpressUrl is the pair <<site, title>> that the url is built from, or <<>>.

\* NewItem with the site filled in by the generator
NewItem_withSite(id, type, title) ==
    [ uid |-> 0, id |-> id, type |-> type, title |-> title, status |-> "draft",
      authorId |-> "none", scheduledFor |-> 0, siteId |-> "site-ok",
      wordpressId |-> 0, wordpressUrl |-> << >> ]

\* the item that a generator returns
NewItem(id, type, title) ==
    [ uid |-> 0, id |-> id, type |-> type, title |-> title, status |-> "draft",
      authorId |-> "none", scheduledFor |-> 0, siteId |-> "none",
      wordpressId |-> 0, wordpressUrl |-> << >> ]

\* Partial<GeneratedContent> with no key present
NoUpdates ==
    [ id |-> 0, type |-> "none", title |-> 0, status |-> "none",
      authorId |-> "none", scheduledFor |-> 0, siteId |-> "none",
      wordpressId |-> 0, wordpressUrl |-> << >> ]

\* a whole item used as the updates of an edit save: every key it has
AsUpdates(c) ==
    [ id |-> c.id, type |-> c.type, title |-> c.title, status |-> c.status,
      authorId |-> c.authorId, scheduledFor |-> c.scheduledFor,
      siteId |-> c.siteId, wordpressId |-> c.wordpressId,
      wordpressUrl |-> c.wordpressUrl ]

\* { ...item, ...updates, updatedAt: new Date() }; updatedAt is not kept
MergeItem(item, u) ==
    [ uid          |-> item.uid,
      id           |-> IF u.id = 0 THEN item.id ELSE u.id,
      type         |-> IF u.type = "none" THEN item.type ELSE u.type,
      title        |-> IF u.title = 0 THEN item.title ELSE u.title,
      status       |-> IF u.status = "none" THEN item.status ELSE u.status,
      authorId     |-> IF u.authorId = "none" THEN item.authorId ELSE u.authorId,
      scheduledFor |-> IF u.scheduledFor = 0 THEN item.scheduledFor ELSE u.scheduledFor,
      siteId       |-> IF u.siteId = "none" THEN item.siteId ELSE u.siteId,
      wordpressId  |-> IF u.wordpressId = 0 THEN item.wordpressId ELSE u.wordpressId,
      wordpressUrl |-> IF u.wordpressUrl = << >> THEN item.wordpressUrl ELSE u.wordpressUrl ]

\* a map that would merge the updates into every item
MapUpdate_everyItem(lib, id, u) ==
    [ k \in 1..Len(lib) |-> MergeItem(lib[k], u) ]

\* prev.map(item => item.id === id ? {...} : item)
MapUpdate(lib, id, u) ==
    [ k \in 1..Len(lib) |-> IF lib[k].id = id THEN MergeItem(lib[k], u) ELSE lib[k] ]

\* prev.filter(item => item.id !== id)
RECURSIVE FilterOut(_, _)
FilterOut(lib, id) ==
    IF lib = << >> THEN << >>
    ELSE IF Head(lib).id = id THEN FilterOut(Tail(lib), id)
         ELSE << Head(lib) >> \o FilterOut(Tail(lib), id)

\* library.find(i => i.id === id): index of the first match, 0 when none
FindIndex(lib, id) ==
    IF \E k \in 1..Len(lib) : lib[k].id = id
    THEN CHOOSE k \in 1..Len(lib) :
            /\ lib[k].id = id
            /\ \A j \in 1..(k - 1) : lib[j].id # id
    ELSE 0

Uids(lib) == { lib[k].uid : k \in 1..Len(lib) }
ItemOf(lib, u) == lib[CHOOSE k \in 1..Len(lib) : lib[k].uid = u]

----------------------------------------------------------------------------
(* Notifications *)

\* { message, type }: the message is kept as its template (msg), the title it
\* quotes, the e-mail it names (the user id stands for the e-mail, "undefined"
\* when the user is not in the directory), the count it reports and the
\* error message it passes on
Notif(type, msg, title, who, count) ==
    [ type |-> type, msg |-> msg, title |-> title, who |-> who, count |-> count,
      error |-> "none" ]

\* a showNotification that would queue the notification behind the current one
showNotification_queued(notif) == Append(notification, notif)

\* showNotification: setNotification(notif); the value replaces the current one
showNotification(notif) == << notif >>

\* lastOp: the handler, the path it took, the item id it was given, and
\* for the bulk scheduler its two arguments and the selection it read
Op(op, res) ==
    [ op |-> op, res |-> res, id |-> 0, startDate |-> 0, intervalDays |-> 0,
      ids |-> << >>, closed |-> FALSE, over |-> FALSE ]
OpOn(op, res, id) == [ Op(op, res) EXCEPT !.id = id ]
\* the record of a step that emits a notification: over tells whether one
\* was on display when it did
Emitting(op) == [ op EXCEPT !.over = (notification # << >>) ]
OpBulk(res, startDate, intervalDays, ids) ==
    [ Op("bulkSchedule", res) EXCEPT !.startDate = startDate,
                                     !.intervalDays = intervalDays, !.ids = ids ]

----------------------------------------------------------------------------
(* The persisted state that App loads on its first render *)

\* the author of the k-th persisted item
PersistedAuthors(k) == IF k = 1 THEN {"w1"} ELSE {"e1", "none"}

\* an item as an earlier session stored it: scheduledFor with status
\* scheduled only, the site fields with status published only
PersistedItem(k, st, au, day) ==
    [ uid |-> k, id |-> k,
      type |-> IF k % 2 = 1 THEN "article" ELSE "product",
      title |-> k, status |-> st, authorId |-> au,
      scheduledFor |-> IF st = "scheduled" THEN day ELSE 0,
      siteId |-> IF st = "published" THEN "site-ok" ELSE "none",
      wordpressId |-> IF st = "published" THEN 1 ELSE 0,
      wordpressUrl |-> IF st = "published" THEN << "site-ok", k >> ELSE << >> ]

PersistedLibraries ==
    { [ k \in 1..InitItems |-> PersistedItem(k, st[k], au[k], 1) ] :
        st \in [1..InitItems -> Statuses],
        au \in { f \in [1..InitItems -> {"w1", "e1", "none"}] :
                    \A k \in 1..InitItems : f[k] \in PersistedAuthors(k) } }

Init ==
    /\ currentUser = NoUser
    /\ currentView = "dashboard"
    /\ library \in PersistedLibraries
    /\ notification = << >>
    /\ editingContent = << >>
    /\ isPublishModalOpen = FALSE
    /\ isScheduleModalOpen = FALSE
    /\ contentToPublish = << >>
    /\ isPublishing = FALSE
    /\ selectedItems = << >>
    /\ generatedContent = << >>
    /\ isGenerating = "none"
    /\ publishCalls = << >>
    /\ lastOp = Op("init", "ok")
    /\ typeFilter = "all"
    /\ statusFilter = "all"
    /\ searchTerm = 0

----------------------------------------------------------------------------
(* Mounting and unmounting *)

\* a dialog built on common/Modal covers the page: while one is open the
\* controls behind it cannot be used
modalOpen == isPublishModalOpen \/ isScheduleModalOpen

loggedIn == currentUser # NoUser
libraryMounted == loggedIn /\ currentView = "library"
newContentMounted == loggedIn /\ currentView = "new-content"

\* the useState initial values of ContentLibraryView
FreshLibraryView ==
    /\ typeFilter' = "all"
    /\ statusFilter' = "all"
    /\ searchTerm' = 0
    /\ isPublishModalOpen' = FALSE
    /\ isScheduleModalOpen' = FALSE
    /\ contentToPublish' = << >>
    /\ isPublishing' = FALSE
    /\ selectedItems' = << >>

\* the useState initial values of NewContentView
FreshNewContentView ==
    /\ generatedContent' = << >>
    /\ isGenerating' = "none"

\* the awaiting handlePublish calls keep the setters of an instance that is gone
Orphaned(calls) == [ k \in 1..Len(calls) |-> [ calls[k] EXCEPT !.mounted = FALSE ] ]

\* the awaiting calls after a logout: their view is gone, and so is the
\* session in which they were made
SessionEnded(calls) ==
    [ k \in 1..Len(calls) |-> [ calls[k] EXCEPT !.mounted = FALSE, !.session = FALSE ] ]

\* NewContentView.tsx:44-59 with App.tsx:175: onClearEditing is a new function
\* on every render of App, so whenever App renders again under a mounted
\* NewContentView the effect's cleanup runs and clears editingContent, and the
\* effect runs again with the existingContent of that render and puts it
\* back into generatedContent
AppRendersAgain(generated) ==
    /\ editingContent' = IF newContentMounted THEN << >> ELSE editingContent
    /\ generatedContent' = IF newContentMounted /\ editingContent # << >>
                           THEN editingContent ELSE generated

----------------------------------------------------------------------------
(* App *)

Email(u) == IF u \in Users THEN u ELSE "undefined"

\* UpdateNotification that names the author in all three messages
UpdateNotification_authorAlways(lib, user, id, u, shown) ==
    LET k == FindIndex(lib, id) IN
    IF k = 0 THEN shown
    ELSE LET item == lib[k] IN
         IF u.status # "none" /\ u.status # item.status
         THEN IF u.status = "needs-review"
              THEN showNotification(Notif("info", "submittedForReviewBy", item.title, Email(item.authorId), 0))
              ELSE IF u.status = "approved"
              THEN showNotification(Notif("success", "approvedBy", item.title, Email(item.authorId), 0))
              ELSE IF u.status = "draft" /\ item.status = "needs-review"
              THEN showNotification(Notif("error", "rejectedBy", item.title, Email(item.authorId), 0))
              ELSE shown
         ELSE shown

\* UpdateNotification that reports a rejection with the severity of an approval
UpdateNotification_rejectAsSuccess(lib, user, id, u, shown) ==
    LET k == FindIndex(lib, id) IN
    IF k = 0 THEN shown
    ELSE LET item == lib[k] IN
         IF u.status # "none" /\ u.status # item.status
         THEN IF u.status = "needs-review"
              THEN showNotification(Notif("info", "submittedForReviewBy", item.title, Email(item.authorId), 0))
              ELSE IF u.status = "approved"
              THEN showNotification(Notif("success", "approvedBy", item.title, Email(user), 0))
              ELSE IF u.status = "draft" /\ item.status = "needs-review"
              THEN showNotification(Notif("success", "rejectedBy", item.title, Email(user), 0))
              ELSE shown
         ELSE shown

\* updateLibraryItem, lines 137-155: the notification it shows.  lib and user
\* are the library and currentUser of the render that created the function.
UpdateNotification(lib, user, id, u, shown) ==
    LET k == FindIndex(lib, id) IN
    IF k = 0 THEN shown
    ELSE LET item == lib[k] IN
         IF u.status # "none" /\ u.status # item.status
         THEN IF u.status = "needs-review"
              THEN showNotification(Notif("info", "submittedForReviewBy", item.title, Email(item.authorId), 0))
              ELSE IF u.status = "approved"
              THEN showNotification(Notif("success", "approvedBy", item.title, Email(user), 0))
              ELSE IF u.status = "draft" /\ item.status = "needs-review"
              THEN showNotification(Notif("error", "rejectedBy", item.title, Email(user), 0))
              ELSE shown
         ELSE shown

\* UpdateLibrary that inserts the item when the store has none of that id
UpdateLibrary_upsert(lib, prev, id, u) ==
    IF FindIndex(lib, id) = 0 THEN prev
    ELSE IF FindIndex(prev, id) = 0
         THEN << MergeItem(NewItem(id, "article", id), u) >> \o prev
         ELSE MapUpdate(prev, id, u)

\* updateLibraryItem, lines 137-138 and 157: the store it leaves.  lib is the
\* library of the render that created the function, prev the store now.
UpdateLibrary(lib, prev, id, u) ==
    IF FindIndex(lib, id) = 0 THEN prev ELSE MapUpdate(prev, id, u)

handleLogin(u) ==
    /\ ~loggedIn
    /\ currentUser' = u
    /\ lastOp' = Op("ui", "ok")
    /\ UNCHANGED << currentView, library, notification, editingContent,
                    viewVars, newVars, publishCalls >>
    /\ UNCHANGED filterVars

handleLogout ==
    /\ loggedIn
    /\ ~modalOpen
    /\ currentUser' = NoUser
    /\ library' = << >>
    /\ editingContent' = << >>
    /\ FreshLibraryView
    /\ FreshNewContentView
    /\ publishCalls' = SessionEnded(publishCalls)
    /\ lastOp' = Op("ui", "ok")
    /\ UNCHANGED << currentView, notification >>

setCurrentView(v) ==
    /\ loggedIn
    /\ ~modalOpen
    /\ v # currentView
    /\ currentView' = v
    /\ editingContent' = << >>
    /\ FreshLibraryView
    /\ FreshNewContentView
    /\ publishCalls' = Orphaned(publishCalls)
    /\ lastOp' = Op("ui", "ok")
    /\ UNCHANGED << currentUser, library, notification >>

\* Notification onClose
closeNotification ==
    /\ loggedIn
    /\ notification # << >>
    /\ notification' = << >>
    /\ AppRendersAgain(generatedContent)
    /\ lastOp' = Op("ui", "ok")
    /\ UNCHANGED << currentUser, currentView, library, viewVars, isGenerating,
                    publishCalls >>
    /\ UNCHANGED filterVars

removeLibraryItem(id) ==
    /\ library' = FilterOut(library, id)
    /\ notification' = showNotification(Notif("success", "contentDeleted", 0, "none", 0))

----------------------------------------------------------------------------
(* ContentLibraryView: the filters *)

\* Texts are sequences of characters.  A title and the search text are kept
\* as numbers: n stands for the n-th text over Chars, 0 for the empty text.
Chars == << "a", "A", "u", "U", "n" >>

RECURSIVE Text(_)
Text(n) ==
    IF n = 0 THEN << >>
    ELSE Text((n - 1) \div Len(Chars)) \o << Chars[((n - 1) % Len(Chars)) + 1] >>

toLowerChar(c) == IF c = "A" THEN "a" ELSE IF c = "U" THEN "u" ELSE c

\* toLowerCase that leaves the text as it is
toLowerCase_identity(str) == str

\* String.prototype.toLowerCase
toLowerCase(str) == [ j \in 1..Len(str) |-> toLowerChar(str[j]) ]

\* String.prototype.includes
includes(str, part) ==
    \E i \in 1..(Len(str) - Len(part) + 1) : SubSeq(str, i, i + Len(part) - 1) = part

\* t('authorUnknown')
AuthorUnknown == << "U", "n" >>

\* the e-mail addresses of the user directory
EmailText(u) ==
    IF u = "w1" THEN << "a", "n" >>
    ELSE IF u = "w2" THEN << "n", "a" >>
    ELSE << "A", "u" >>

\* getAuthorEmail that has no text for an author it cannot resolve
getAuthorEmail_empty(authorId) ==
    IF authorId = "none" THEN << >>
    ELSE IF authorId \in Users THEN EmailText(authorId) ELSE << >>

\* getAuthorEmail, lines 41-45
getAuthorEmail(authorId) ==
    IF authorId = "none" THEN AuthorUnknown
    ELSE IF authorId \in Users THEN EmailText(authorId) ELSE AuthorUnknown

\* filteredLibrary, lines 48-54: the three filters, one after the other
Query(items, type, status, term) ==
    LET ByType(item) == type = "all" \/ item.type = type
        ByStatus(item) == status = "all" \/ item.status = status
        ByText(item) ==
            \/ includes(toLowerCase(Text(item.title)), toLowerCase(term))
            \/ includes(toLowerCase(getAuthorEmail(item.authorId)), toLowerCase(term))
    IN SelectSeq(SelectSeq(SelectSeq(items, ByType), ByStatus), ByText)

filteredLibrary == Query(library, typeFilter, statusFilter, Text(searchTerm))

\* the buttons, the select and the search box above the table
setTypeFilter(f) ==
    /\ libraryMounted /\ ~modalOpen
    /\ f # typeFilter
    /\ typeFilter' = f
    /\ lastOp' = Op("ui", "ok")
    /\ UNCHANGED << appVars, viewVars, newVars, publishCalls, statusFilter, searchTerm >>

setStatusFilter(f) ==
    /\ libraryMounted /\ ~modalOpen
    /\ f # statusFilter
    /\ statusFilter' = f
    /\ lastOp' = Op("ui", "ok")
    /\ UNCHANGED << appVars, viewVars, newVars, publishCalls, typeFilter, searchTerm >>

setSearchTerm(n) ==
    /\ libraryMounted /\ ~modalOpen
    /\ n # searchTerm
    /\ searchTerm' = n
    /\ lastOp' = Op("ui", "ok")
    /\ UNCHANGED << appVars, viewVars, newVars, publishCalls, typeFilter, statusFilter >>

----------------------------------------------------------------------------
(* ContentLibraryView: the rows *)

\* the library view can take input: it is mounted and no dialog covers it
rowsUsable == libraryMounted /\ ~modalOpen

\* WorkflowButtons with the Writer's button drawn on every draft
WorkflowButtons_anyAuthor(item) ==
    IF userIsEditor
    THEN IF item.status = "needs-review" THEN {"approved", "draft"} ELSE {}
    ELSE IF item.status = "draft" THEN {"needs-review"} ELSE {}

\* WorkflowButtons with the Editor's buttons drawn for every user
WorkflowButtons_anyRole(item) ==
    IF item.status = "needs-review" THEN {"approved", "draft"}
    ELSE IF item.status = "draft" /\ item.authorId = currentUser
         THEN {"needs-review"} ELSE {}

\* renderWorkflowActions: the status buttons drawn in the row of item
WorkflowButtons(item) ==
    IF userIsEditor
    THEN IF item.status = "needs-review" THEN {"approved", "draft"} ELSE {}
    ELSE IF item.status = "draft" /\ item.authorId = currentUser
         THEN {"needs-review"} ELSE {}

\* renderWorkflowActions: the publish button is drawn in the row of item
PublishButton(item) == userIsEditor /\ item.status = "approved"

\* canEditOrDelete without the check of author and status
canEditOrDelete_anyone(item) == TRUE

canEditOrDelete(item) ==
    IF userIsEditor THEN TRUE
    ELSE item.authorId = currentUser /\ item.status = "draft"

\* a click on a status button of row k
handleStatusChange(k, status) ==
    /\ rowsUsable
    /\ k \in 1..Len(library)
    /\ status \in WorkflowButtons(library[k])
    /\ LET id == library[k].id
           u  == [ NoUpdates EXCEPT !.status = status ] IN
       /\ notification' = UpdateNotification(library, currentUser, id, u, notification)
       /\ library' = UpdateLibrary(library, library, id, u)
    /\ lastOp' = OpOn("statusChange", status, library[k].id)
    /\ UNCHANGED << currentUser, currentView, editingContent, viewVars, newVars,
                    publishCalls >>
    /\ UNCHANGED filterVars

\* a click on the delete button of row k
onRemoveItem(k) ==
    /\ rowsUsable
    /\ k \in 1..Len(library)
    /\ canEditOrDelete(library[k])
    /\ removeLibraryItem(library[k].id)
    /\ lastOp' = Emitting(OpOn("remove", "ok", library[k].id))
    /\ UNCHANGED << currentUser, currentView, editingContent, viewVars, newVars,
                    publishCalls >>
    /\ UNCHANGED filterVars

\* new Set(prev) with id deleted
RECURSIVE Without(_, _)
Without(ids, id) ==
    IF ids = << >> THEN << >>
    ELSE IF Head(ids) = id THEN Without(Tail(ids), id)
         ELSE << Head(ids) >> \o Without(Tail(ids), id)

Has(ids, id) == \E j \in 1..Len(ids) : ids[j] = id

\* new Set(filteredLibrary.map(item => item.id))
RECURSIVE IdSet(_, _)
IdSet(lib, seen) ==
    IF lib = << >> THEN seen
    ELSE IdSet(Tail(lib), IF Has(seen, Head(lib).id) THEN seen ELSE Append(seen, Head(lib).id))

\* the checkbox of row k
handleSelectItem(k) ==
    /\ rowsUsable
    /\ k \in 1..Len(library)
    /\ userIsEditor \/ library[k].status = "approved"
    /\ LET id == library[k].id IN
       selectedItems' = IF Has(selectedItems, id) THEN Without(selectedItems, id)
                        ELSE Append(selectedItems, id)
    /\ lastOp' = Op("ui", "ok")
    /\ UNCHANGED << appVars, isPublishModalOpen, isScheduleModalOpen,
                    contentToPublish, isPublishing, newVars, publishCalls >>
    /\ UNCHANGED filterVars

\* the checkbox of the table head, with no filter set
handleSelectAll ==
    /\ rowsUsable
    /\ selectedItems' = IF Len(selectedItems) = Len(filteredLibrary) THEN << >>
                        ELSE IdSet(filteredLibrary, << >>)
    /\ lastOp' = Op("ui", "ok")
    /\ UNCHANGED << appVars, isPublishModalOpen, isScheduleModalOpen,
                    contentToPublish, isPublishing, newVars, publishCalls >>
    /\ UNCHANGED filterVars

----------------------------------------------------------------------------
(* ContentLibraryView: bulk scheduling *)

\* ScheduleEach with the date moved on for every id, scheduled or skipped
RECURSIVE ScheduleEach_alwaysAdvance(_, _, _, _, _)
ScheduleEach_alwaysAdvance(ids, lib, prev, date, intervalDays) ==
    IF ids = << >> THEN prev
    ELSE LET id == Head(ids)
             k  == FindIndex(lib, id) IN
         IF k # 0 /\ lib[k].status = "approved"
         THEN ScheduleEach_alwaysAdvance(Tail(ids), lib,
                  MapUpdate(prev, id,
                      [ NoUpdates EXCEPT !.status = "scheduled", !.scheduledFor = date ]),
                  date + intervalDays, intervalDays)
         ELSE ScheduleEach_alwaysAdvance(Tail(ids), lib, prev, date + intervalDays, intervalDays)

\* the forEach of handleBulkSchedule.  lib is the library prop of the render,
\* prev the store that the queued updates are applied to in turn, date the
\* value of currentScheduleDate.
RECURSIVE ScheduleEach(_, _, _, _, _)
ScheduleEach(ids, lib, prev, date, intervalDays) ==
    IF ids = << >> THEN prev
    ELSE LET id == Head(ids)
             k  == FindIndex(lib, id) IN
         IF k # 0 /\ lib[k].status = "approved"
         THEN ScheduleEach(Tail(ids), lib,
                  UpdateLibrary(lib, prev, id,
                      [ NoUpdates EXCEPT !.status = "scheduled", !.scheduledFor = date ]),
                  date + intervalDays, intervalDays)
         ELSE ScheduleEach(Tail(ids), lib, prev, date, intervalDays)

\* the button that opens the dialog
openScheduleModal ==
    /\ rowsUsable
    /\ userIsEditor /\ Len(selectedItems) > 0
    /\ isScheduleModalOpen' = TRUE
    /\ lastOp' = Op("ui", "ok")
    /\ UNCHANGED << appVars, isPublishModalOpen, contentToPublish, isPublishing,
                    selectedItems, newVars, publishCalls >>
    /\ UNCHANGED filterVars

closeScheduleModal ==
    /\ libraryMounted
    /\ isScheduleModalOpen
    /\ isScheduleModalOpen' = FALSE
    /\ lastOp' = Op("ui", "ok")
    /\ UNCHANGED << appVars, isPublishModalOpen, contentToPublish, isPublishing,
                    selectedItems, newVars, publishCalls >>
    /\ UNCHANGED filterVars

\* MayBulkSchedule without the role check
MayBulkSchedule_anyone == TRUE

\* handleBulkSchedule, line 114
MayBulkSchedule == userIsEditor

\* ValidBulkInput without the check of the interval
ValidBulkInput_anyInterval(startDate, intervalDays) == startDate # 0

\* BulkScheduleModal.handleSubmit, line 532
ValidBulkInput(startDate, intervalDays) == startDate # 0 /\ intervalDays > 0

\* BulkScheduleModal.handleSubmit followed by handleBulkSchedule.  startDate 0
\* is the empty input.  The handler is taken as callable by whoever has the
\* view mounted: its own role check, not the hidden button, is what the call
\* meets.
handleBulkSchedule(startDate, intervalDays) ==
    /\ libraryMounted
    /\ ~isPublishModalOpen
    /\ IF ~ValidBulkInput(startDate, intervalDays)
       THEN /\ lastOp' = OpBulk("invalid", startDate, intervalDays, selectedItems)
            /\ UNCHANGED << library, notification, selectedItems, isScheduleModalOpen >>
       ELSE IF ~MayBulkSchedule
       THEN /\ lastOp' = OpBulk("unauthorized", startDate, intervalDays, selectedItems)
            /\ UNCHANGED << library, notification, selectedItems, isScheduleModalOpen >>
       ELSE /\ library' = ScheduleEach(selectedItems, library, library, startDate, intervalDays)
            /\ notification' = showNotification(Notif("success", "bulkScheduleSuccess", 0, "none",
                                        Len(selectedItems)))
            /\ selectedItems' = << >>
            /\ isScheduleModalOpen' = FALSE
            /\ lastOp' = Emitting(OpBulk("ok", startDate, intervalDays, selectedItems))
    /\ UNCHANGED << currentUser, currentView, editingContent, isPublishModalOpen,
                    contentToPublish, isPublishing, newVars, publishCalls >>
    /\ UNCHANGED filterVars

----------------------------------------------------------------------------
(* ContentLibraryView: publishing *)

\* a click on the publish button of row k
handlePublishClick(k) ==
    /\ rowsUsable
    /\ k \in 1..Len(library)
    /\ PublishButton(library[k])
    /\ IF ~userIsEditor
       THEN UNCHANGED << contentToPublish, isPublishModalOpen >>
       ELSE /\ contentToPublish' = << library[k] >>
            /\ isPublishModalOpen' = TRUE
    /\ lastOp' = Op("ui", "ok")
    /\ UNCHANGED << appVars, isScheduleModalOpen, isPublishing, selectedItems,
                    newVars, publishCalls >>
    /\ UNCHANGED filterVars

\* an onClose that would abandon the awaited calls
AfterClose_cancelled(calls) == << >>

\* the calls in flight once the dialog of the mounted view has closed: each
\* goes on, and the call of that view is marked as one whose dialog closed
AfterClose(calls) ==
    [ j \in 1..Len(calls) |->
        IF calls[j].mounted THEN [ calls[j] EXCEPT !.closed = TRUE ] ELSE calls[j] ]

\* onClose of the publish dialog
closePublishModal ==
    /\ libraryMounted
    /\ isPublishModalOpen
    /\ isPublishModalOpen' = FALSE
    /\ publishCalls' = AfterClose(publishCalls)
    /\ lastOp' = Op("ui", "ok")
    /\ UNCHANGED << appVars, isScheduleModalOpen, contentToPublish, isPublishing,
                    selectedItems, newVars >>
    /\ UNCHANGED filterVars

\* what an awaiting handlePublish holds: the snapshot's id and title, the
\* site, whether the library of its render has the id, the user of its
\* render, and whether its view instance is still mounted
PublishCall(c, site) ==
    [ id |-> c.id, title |-> c.title, site |-> site,
      found |-> FindIndex(library, c.id) # 0,
      user |-> currentUser, mounted |-> TRUE, closed |-> FALSE, session |-> TRUE ]

\* the submit button of the publish dialog can be pressed: the dialog is
\* rendered with its content and the view that renders it is not publishing
MaySubmit ==
    /\ libraryMounted
    /\ isPublishModalOpen /\ contentToPublish # << >>
    /\ ~isPublishing

\* PublishModal.handleSubmit and handlePublish up to the await
handlePublish(site) ==
    /\ MaySubmit
    /\ Len(publishCalls) < MaxInFlight
    /\ IF ~userIsEditor
       THEN UNCHANGED << isPublishing, publishCalls >>
       ELSE /\ isPublishing' = TRUE
            /\ publishCalls' = Append(publishCalls, PublishCall(contentToPublish[1], site))
    /\ lastOp' = OpOn("publish", "started", contentToPublish[1].id)
    /\ UNCHANGED << appVars, isPublishModalOpen, isScheduleModalOpen,
                    contentToPublish, selectedItems, newVars >>
    /\ UNCHANGED filterVars

RemoveAt(s, k) == [ j \in 1..(Len(s) - 1) |-> IF j < k THEN s[j] ELSE s[j + 1] ]

\* publishContent, lines 118-120
PublishFails(site) == site = "site-publish-fail"

\* the message of the Error that publishContent throws
PublishError(site) == "The server returned an error (500)."

\* PublishFailNotif with the severity of the success branch
PublishFailNotif_asSuccess(errorMessage) ==
    [ Notif("success", "publishFail", 0, "none", 0) EXCEPT !.error = errorMessage ]

\* handlePublish, the catch block: t('publishFail', { error: errorMessage })
PublishFailNotif(errorMessage) ==
    [ Notif("error", "publishFail", 0, "none", 0) EXCEPT !.error = errorMessage ]

\* PublishedUpdates that sets the status and forgets what the site answered
PublishedUpdates_statusOnly(call, postId) ==
    [ NoUpdates EXCEPT !.status = "published" ]

\* handlePublish, lines 76-81: the updates it applies when the call resolves.
\* The site is always found: the dialog offers the sites of the list only.
PublishedUpdates(call, postId) ==
    [ NoUpdates EXCEPT !.status = "published", !.siteId = call.site,
                       !.wordpressId = postId,
                       !.wordpressUrl = << call.site, call.title >> ]

\* handlePublish from the await on: publishContent settles for call k, with
\* postId the id the site answers
publishSettled(k, postId) ==
    /\ k \in 1..Len(publishCalls)
    /\ LET call == publishCalls[k] IN
       /\ publishCalls' = RemoveAt(publishCalls, k)
       /\ IF PublishFails(call.site)
          THEN /\ notification' = showNotification(PublishFailNotif(PublishError(call.site)))
               /\ lastOp' = Emitting(OpOn("publishSettled", "rejected", call.id))
               /\ UNCHANGED << library, isPublishModalOpen >>
          ELSE /\ library' = UpdateLibrary(
                     IF call.found THEN << [ id |-> call.id ] >> ELSE << >>,
                     library, call.id, PublishedUpdates(call, postId))
               /\ notification' = showNotification(Notif("success", "publishSuccess", 0, "none", 0))
               /\ isPublishModalOpen' = IF call.mounted THEN FALSE ELSE isPublishModalOpen
               /\ lastOp' = Emitting([ OpOn("publishSettled", "resolved", call.id)
                                        EXCEPT !.closed = call.closed ])
       /\ isPublishing' = IF call.mounted THEN FALSE ELSE isPublishing
    /\ AppRendersAgain(generatedContent)
    /\ UNCHANGED << currentUser, currentView, isScheduleModalOpen, contentToPublish,
                    selectedItems, isGenerating >>
    /\ UNCHANGED filterVars

----------------------------------------------------------------------------
(* NewContentView *)

\* a click on the edit button of row k: handleEditItem, then the effect of
\* the NewContentView that mounts
handleEditItem(k) ==
    /\ rowsUsable
    /\ k \in 1..Len(library)
    /\ canEditOrDelete(library[k])
    /\ editingContent' = << library[k] >>
    /\ currentView' = "new-content"
    /\ FreshLibraryView
    /\ generatedContent' = << library[k] >>
    /\ isGenerating' = "none"
    /\ publishCalls' = Orphaned(publishCalls)
    /\ lastOp' = Op("ui", "ok")
    /\ UNCHANGED << currentUser, library, notification >>

GenerateKinds == {"article", "product", "strategy"}

IdsIn(items) == { items[j].id : j \in 1..Len(items) }

\* an id is made from the clock and is new.  The numbers stand for ids; one
\* that nothing in the state still mentions is as good as new.
UsedIds ==
    IdsIn(library) \cup IdsIn(generatedContent) \cup IdsIn(editingContent)
    \cup IdsIn(contentToPublish) \cup IdsIn(publishCalls)
    \cup { selectedItems[j] : j \in 1..Len(selectedItems) }

FreeIds == (1..MaxId) \ UsedIds

Least(S) == CHOOSE x \in S : \A y \in S : x <= y

\* handleGenerateArticle / Product / Strategy up to the await
handleGenerate(kind) ==
    /\ newContentMounted
    /\ isGenerating = "none"
    /\ generatedContent' = << >>
    /\ isGenerating' = kind
    /\ lastOp' = Op("ui", "ok")
    /\ UNCHANGED << appVars, viewVars, publishCalls >>
    /\ UNCHANGED filterVars

\* what the generator returns: generateArticle and generateProduct one draft,
\* generateContentStrategy an array of drafts, ids made from the clock
Generated(kind) ==
    LET a == Least(FreeIds)
        b == Least(FreeIds \ {a}) IN
    IF kind = "strategy"
    THEN << NewItem(a, "article", a), NewItem(b, "article", b) >>
    ELSE << NewItem(a, kind, a) >>

\* handleGenerate* from the await on
generateSettled(ok) ==
    /\ newContentMounted
    /\ isGenerating # "none"
    /\ isGenerating' = "none"
    /\ IF ok
       THEN /\ Cardinality(FreeIds) >= (IF isGenerating = "strategy" THEN 2 ELSE 1)
            /\ generatedContent' = Generated(isGenerating)
            /\ lastOp' = Op("ui", "ok")
       ELSE /\ UNCHANGED << generatedContent >>
            /\ lastOp' = Op("ui", "ok")
    /\ UNCHANGED << appVars, viewVars, publishCalls >>
    /\ UNCHANGED filterVars

\* addContentToLibrary, line 130.  Each new record gets a name that no
\* record of the store has.
Authored(content) ==
    LET free == (1..(MaxItems + 2)) \ Uids(library)
        a == Least(free)
        b == Least(free \ {a}) IN
    [ j \in 1..Len(content) |->
        [ content[j] EXCEPT !.authorId = currentUser, !.uid = IF j = 1 THEN a ELSE b ] ]

\* the save button
handleAddToLibrary ==
    /\ newContentMounted
    /\ isGenerating = "none"
    /\ generatedContent # << >>
    /\ IF editingContent # << >>
       THEN LET c == generatedContent[1]
                found == FindIndex(library, c.id) # 0 IN
            /\ notification' = UpdateNotification(library, currentUser, c.id, AsUpdates(c), notification)
            /\ library' = UpdateLibrary(library, library, c.id, AsUpdates(c))
            /\ IF found
               THEN AppRendersAgain(<< >>)
               ELSE /\ generatedContent' = << >>
                    /\ UNCHANGED editingContent
            /\ lastOp' = OpOn("save", IF found THEN "updated" ELSE "notfound", c.id)
            /\ UNCHANGED currentView
       ELSE /\ Len(library) + Len(generatedContent) <= MaxItems
            /\ library' = Authored(generatedContent) \o library
            /\ currentView' = "library"
            /\ notification' = showNotification(Notif("success", "contentAddedToLibrary", 0, "none", 0))
            /\ generatedContent' = << >>
            /\ lastOp' = Emitting(Op("save", "added"))
            /\ UNCHANGED editingContent
    /\ UNCHANGED << currentUser, viewVars, isGenerating, publishCalls >>
    /\ UNCHANGED filterVars

----------------------------------------------------------------------------

Next ==
    \/ \E u \in Users : handleLogin(u)
    \/ handleLogout
    \/ \E v \in Views : setCurrentView(v)
    \/ closeNotification
    \/ \E k \in 1..MaxItems, st \in Statuses : handleStatusChange(k, st)
    \/ \E k \in 1..MaxItems : onRemoveItem(k)
    \/ \E k \in 1..MaxItems : handleSelectItem(k)
    \/ handleSelectAll
    \/ openScheduleModal
    \/ closeScheduleModal
    \/ \E d \in 0..MaxStart, n \in 0..MaxInterval : handleBulkSchedule(d, n)
    \/ \E k \in 1..MaxItems : handlePublishClick(k)
    \/ closePublishModal
    \/ \E site \in Sites : handlePublish(site)
    \/ \E k \in 1..MaxInFlight, p \in 1..MaxPostId : publishSettled(k, p)
    \/ \E k \in 1..MaxItems : handleEditItem(k)
    \/ \E kind \in GenerateKinds : handleGenerate(kind)
    \/ \E ok \in BOOLEAN : generateSettled(ok)
    \/ handleAddToLibrary

Spec == Init /\ [][Next]_vars

\* Next keeps the filters at 'all', 'all' and the empty text, under which
\* the table shows every item of the store.  The filters are exercised on
\* their own: a logged-in user in the library view, over a loaded library
\* whose items vary in type, status, title and author.
QueryStatuses == {"draft", "approved"}
QueryAuthors == {"w1", "none", "ghost"}

QueryItem(k, type, st, title, au) ==
    [ PersistedItem(k, st, au, 1) EXCEPT !.type = type, !.title = title ]

QueryLibraries ==
    UNION { { [ k \in 1..n |-> QueryItem(k, f[k][1], f[k][2], f[k][3], f[k][4]) ] :
                f \in [1..n -> Types \X QueryStatuses \X (1..MaxQueryTitle) \X QueryAuthors] } :
            n \in 0..MaxQueryItems }

QueryInit ==
    /\ currentUser = "e1"
    /\ currentView = "library"
    /\ library \in QueryLibraries
    /\ notification = << >>
    /\ editingContent = << >>
    /\ isPublishModalOpen = FALSE
    /\ isScheduleModalOpen = FALSE
    /\ contentToPublish = << >>
    /\ isPublishing = FALSE
    /\ selectedItems = << >>
    /\ generatedContent = << >>
    /\ isGenerating = "none"
    /\ publishCalls = << >>
    /\ lastOp = Op("init", "ok")
    /\ typeFilter = "all"
    /\ statusFilter = "all"
    /\ searchTerm = 0

QueryNext ==
    \/ \E f \in {"all"} \cup Types : setTypeFilter(f)
    \/ \E f \in {"all"} \cup Statuses : setStatusFilter(f)
    \/ \E n \in 0..MaxSearch : setSearchTerm(n)

QuerySpec == QueryInit /\ [][QueryNext]_vars

----------------------------------------------------------------------------
(* Comparing the store before and after a step *)

\* the records that a step keeps
Kept == Uids(library) \cap Uids(library')

\* the records that a step keeps and rewrites with another content
Changed == { u \in Kept : ItemOf(library', u) # ItemOf(library, u) }

\* the transition table of the workflow
TransitionTable ==
    { << "draft", "needs-review" >>, << "needs-review", "approved" >>,
      << "needs-review", "draft" >>, << "approved", "published" >>,
      << "approved", "scheduled" >> }

----------------------------------------------------------------------------
(* Claims *)

\* C1: in every reachable state every item of the store has scheduledFor set
\* if and only if its status is scheduled.
C1_ScheduledForIffScheduled ==
    \A k \in 1..Len(library) :
        (library[k].scheduledFor # 0) <=> (library[k].status = "scheduled")

\* C2: whenever a step changes the status of an item, the old and the new
\* status are a pair of the transition table.
C2_OnlyTableTransitions ==
    [][ \A u \in Kept :
          ItemOf(library', u).status # ItemOf(library, u).status
          => << ItemOf(library, u).status, ItemOf(library', u).status >> \in TransitionTable
      ]_vars

\* C3: an item whose status is published keeps that status in every step
\* that keeps the item.
C3_PublishedIsTerminal ==
    [][ \A u \in Kept :
          ItemOf(library, u).status = "published"
          => ItemOf(library', u).status = "published"
      ]_vars

isWriter == loggedIn /\ RoleOf(currentUser) = "writer"

EditorTransitions ==
    { << "needs-review", "approved" >>, << "needs-review", "draft" >>,
      << "approved", "published" >>, << "approved", "scheduled" >> }

\* C5: a step that approves, rejects, publishes or schedules an item is taken
\* with an Editor as the current user.
C5_EditorOnlyTransitions ==
    [][ \A u \in Kept :
          << ItemOf(library, u).status, ItemOf(library', u).status >> \in EditorTransitions
          => userIsEditor
      ]_vars

\* C5 witness: a publish call has resolved and its item is published
C5_Witness ==
    /\ lastOp.op = "publishSettled" /\ lastOp.res = "resolved"
    /\ \E k \in 1..Len(library) :
          library[k].id = lastOp.id /\ library[k].status = "published"

\* a request that the code turns down, or that names no item of the store
RequestFails ==
    \/ lastOp'.res \in {"notfound", "unauthorized", "invalid"}
    \/ /\ lastOp'.op \in {"statusChange", "publishSettled", "save"}
       /\ lastOp'.res # "added"
       /\ lastOp'.id \notin IdsIn(library)

BulkStep == lastOp'.op = "bulkSchedule" /\ lastOp'.res = "ok"

\* the ids of a selection that the scheduler finds approved, in order
RECURSIVE ApprovedIds(_, _)
ApprovedIds(ids, lib) ==
    IF ids = << >> THEN << >>
    ELSE LET k == FindIndex(lib, Head(ids)) IN
         IF k # 0 /\ lib[k].status = "approved"
         THEN << Head(ids) >> \o ApprovedIds(Tail(ids), lib)
         ELSE ApprovedIds(Tail(ids), lib)

\* C7: the items that a bulk schedule transitions are, in the order of the
\* selection, one item per approved id; the j-th of them (from 0) becomes
\* scheduled with scheduledFor = startDate + j * intervalDays, so that no two
\* items of the batch share a timestamp.
C7_BatchTimestamps ==
    [][ BulkStep =>
          LET appr == ApprovedIds(selectedItems, library) IN
          /\ \A u \in Changed :
                \E j \in 1..Len(appr) :
                   /\ ItemOf(library, u).id = appr[j]
                   /\ ItemOf(library', u).status = "scheduled"
                   /\ ItemOf(library', u).scheduledFor
                         = lastOp'.startDate + (j - 1) * lastOp'.intervalDays
          /\ \A j \in 1..Len(appr) :
                Cardinality({ u \in Changed : ItemOf(library, u).id = appr[j] }) = 1
          /\ \A u, v \in Changed :
                u # v => ItemOf(library', u).scheduledFor # ItemOf(library', v).scheduledFor
      ]_vars

\* C8: in a bulk schedule an id whose item is not approved leaves every item
\* of that id as it was, and the item found for an approved id gets
\* startDate + intervalDays * (the number of approved ids before it): skipped
\* ids do not move the cursor.
C8_SkipKeepsCursor ==
    [][ BulkStep =>
          \A p \in 1..Len(selectedItems) :
             LET id == selectedItems[p]
                 k  == FindIndex(library, id)
                 before == ApprovedIds(SubSeq(selectedItems, 1, p - 1), library) IN
             /\ (k # 0 /\ library[k].status # "approved")
                   => \A u \in Kept : ItemOf(library, u).id = id
                                      => ItemOf(library', u) = ItemOf(library, u)
             /\ (k # 0 /\ library[k].status = "approved")
                   => /\ ItemOf(library', library[k].uid).status = "scheduled"
                      /\ ItemOf(library', library[k].uid).scheduledFor
                            = lastOp'.startDate + Len(before) * lastOp'.intervalDays
      ]_vars

\* C8 witness: a bulk schedule of two ids has skipped the first, whose item
\* is not scheduled, and given the second the start date
C8_Witness ==
    /\ lastOp.op = "bulkSchedule" /\ lastOp.res = "ok"
    /\ Len(lastOp.ids) = 2
    /\ \E k \in 1..Len(library) :
          library[k].id = lastOp.ids[1] /\ library[k].status \notin {"scheduled", "approved"}
    /\ \E k \in 1..Len(library) :
          /\ library[k].id = lastOp.ids[2]
          /\ library[k].status = "scheduled"
          /\ library[k].scheduledFor = lastOp.startDate

\* C9: a bulk schedule leaves one notification, and the count in it is the
\* number of items that the call transitioned.
C9_NotificationCountsTransitioned ==
    [][ BulkStep =>
          /\ Len(notification') = 1
          /\ notification'[1].msg = "bulkScheduleSuccess"
          /\ notification'[1].count = Cardinality(Changed)
      ]_vars

\* C10: a bulk schedule called under a user who is not an Editor leaves the
\* store as it was.
C10_NonEditorSchedulesNothing ==
    [][ (lastOp'.op = "bulkSchedule" /\ ~userIsEditor) => library' = library ]_vars

\* C10 witness: a Writer's call with valid arguments and a selection that
\* holds an approved item has been turned down
C10_Witness ==
    /\ isWriter
    /\ lastOp.op = "bulkSchedule" /\ lastOp.res = "unauthorized"
    /\ \E j \in 1..Len(lastOp.ids), k \in 1..Len(library) :
          library[k].id = lastOp.ids[j] /\ library[k].status = "approved"

----------------------------------------------------------------------------
(* Claims about publishing *)

\* a step in which a publish call settled with a rejection / with a result
PublishRejected == lastOp'.op = "publishSettled" /\ lastOp'.res = "rejected"
PublishResolved == lastOp'.op = "publishSettled" /\ lastOp'.res = "resolved"

\* C11: the step that starts a publish call and the step in which the call
\* rejects both leave every item of the store as it was, and the rejection
\* leaves one notification of severity error that carries the message of
\* the error.
C11_RejectedPublishLeavesItem ==
    [][ /\ (lastOp'.op = "publish") => library' = library
        /\ PublishRejected =>
              /\ library' = library
              /\ Len(notification') = 1
              /\ notification'[1].type = "error"
              /\ notification'[1].msg = "publishFail"
              /\ \E k \in 1..Len(publishCalls) :
                    /\ publishCalls' = RemoveAt(publishCalls, k)
                    /\ publishCalls[k].id = lastOp'.id
                    /\ notification'[1].error = PublishError(publishCalls[k].site)
      ]_vars

\* C11 witness: a publish call has rejected, its item is in the store and
\* approved without site fields, and the error notification is on display
C11_Witness ==
    /\ lastOp.op = "publishSettled" /\ lastOp.res = "rejected"
    /\ notification # << >> /\ notification[1].type = "error"
    /\ \E k \in 1..Len(library) :
          /\ library[k].id = lastOp.id
          /\ library[k].status = "approved"
          /\ library[k].siteId = "none"

\* C12: a kept item becomes published only in the step in which a publish
\* call for its id resolves, and in that step it gets the site of the call,
\* the post id and the url of the answer.
C12_PublishedWithResult ==
    [][ \A u \in Kept :
          LET a == ItemOf(library, u)
              b == ItemOf(library', u) IN
          (a.status # "published" /\ b.status = "published")
          => /\ PublishResolved
             /\ lastOp'.id = a.id
             /\ \E k \in 1..Len(publishCalls) :
                   /\ publishCalls' = RemoveAt(publishCalls, k)
                   /\ publishCalls[k].id = a.id
                   /\ b.siteId = publishCalls[k].site
                   /\ b.wordpressId \in 1..MaxPostId
                   /\ b.wordpressUrl = << publishCalls[k].site, publishCalls[k].title >>
      ]_vars

\* C13: when a publish call resolves for an id that no item of the store
\* has, the store stays as it was and no error notification is shown.
C13_ResolvedAfterDeleteIsNoOp ==
    [][ (PublishResolved /\ lastOp'.id \notin IdsIn(library))
          => /\ library' = library
             /\ \A j \in 1..Len(notification') : notification'[j].type # "error"
      ]_vars

\* C13 witness: the delete of an item whose publish call is awaited has
\* been followed by the call's resolution, with another item in the store
C13_Witness ==
    /\ lastOp.op = "publishSettled" /\ lastOp.res = "resolved"
    /\ lastOp.id \notin IdsIn(library)
    /\ Len(library) = 1
    /\ notification # << >> /\ notification[1].msg = "publishSuccess"

\* C14: a step that starts a publish call is taken with an Editor as the
\* current user and for an id that an approved item of the store has.
C14_PublishStartsFromApproved ==
    [][ (lastOp'.op = "publish" /\ publishCalls' # publishCalls)
          => /\ userIsEditor
             /\ \E k \in 1..Len(library) :
                   library[k].id = lastOp'.id /\ library[k].status = "approved"
      ]_vars

----------------------------------------------------------------------------
(* Claims about the life of an item *)

\* the site fields of an item, and their value when none is set
Meta(item) == << item.siteId, item.wordpressId, item.wordpressUrl >>
NoMeta == << "none", 0, << >> >>

\* the records that a step adds to, and removes from, the store
Entered == Uids(library') \ Uids(library)
Left == Uids(library) \ Uids(library')

\* C15: after every step an item has its three site fields all set or all
\* absent, and an item that has them set either belongs to an id that
\* already had them set before the step, or the step is the successful
\* resolution of a publish call for its id.  (The items loaded at start
\* have them set only when published.)
C15_SiteFieldsOnlyAfterPublish ==
    [][ \A k \in 1..Len(library') :
          LET b == library'[k] IN
          /\ (b.siteId = "none") = (b.wordpressId = 0)
          /\ (b.siteId = "none") = (b.wordpressUrl = << >>)
          /\ Meta(b) # NoMeta
                => \/ \E j \in 1..Len(library) :
                         library[j].id = b.id /\ Meta(library[j]) # NoMeta
                   \/ PublishResolved /\ lastOp'.id = b.id
      ]_vars

\* C15 witness: the store holds an item that a publish call has just given
\* its site fields and an item that has none
C15_Witness ==
    /\ lastOp.op = "publishSettled" /\ lastOp.res = "resolved"
    /\ \E k, j \in 1..Len(library) :
          /\ library[k].id = lastOp.id /\ Meta(library[k]) # NoMeta
          /\ library[j].id # lastOp.id /\ Meta(library[j]) = NoMeta

\* the current user may delete item: an Editor, or the Writer who is the
\* author of a draft
MayDelete(item) ==
    \/ userIsEditor
    \/ isWriter /\ item.authorId = currentUser /\ item.status = "draft"

\* a step that logs the user out
LogoutStep == currentUser # NoUser /\ currentUser' = NoUser

\* C16 as stated: an item leaves the store only in a delete of its id, and
\* that delete is taken by a user who may delete it.
C16_LeavesOnlyByDelete ==
    [][ \A u \in Left :
          /\ lastOp'.op = "remove"
          /\ lastOp'.id = ItemOf(library, u).id
          /\ MayDelete(ItemOf(library, u))
      ]_vars

\* C16 amended: an item leaves the store only in a delete of its id, taken
\* by a user who may delete it, or in a logout, which empties the store.
C16_LeavesByDeleteOrLogout ==
    [][ \A u \in Left :
          \/ /\ lastOp'.op = "remove"
             /\ lastOp'.id = ItemOf(library, u).id
             /\ MayDelete(ItemOf(library, u))
          \/ LogoutStep /\ library' = << >>
      ]_vars

\* C16 witness: a Writer has deleted an item and the store still holds an
\* item, which that Writer may not delete
C16_Witness ==
    /\ isWriter
    /\ lastOp.op = "remove"
    /\ lastOp.id \notin IdsIn(library)
    /\ \E k \in 1..Len(library) : ~MayDelete(library[k])

\* C17: every record that a step adds to the store is a draft whose
\* authorId is the current user.
C17_EntersAsDraftOfUser ==
    [][ \A u \in Entered :
          /\ ItemOf(library', u).status = "draft"
          /\ ItemOf(library', u).authorId = currentUser
          /\ loggedIn
      ]_vars

----------------------------------------------------------------------------
(* Claims about notifications *)

\* the message that reports a status change, "none" when there is none
KindOf(from, to) ==
    IF from = "draft" /\ to = "needs-review" THEN "submittedForReviewBy"
    ELSE IF from = "needs-review" /\ to = "approved" THEN "approvedBy"
    ELSE IF from = "needs-review" /\ to = "draft" THEN "rejectedBy"
    ELSE "none"

C19_RejectNotification ==
    [][ \A u \in Kept :
          (ItemOf(library, u).status = "needs-review" /\ ItemOf(library', u).status = "draft")
          => /\ userIsEditor
             /\ Len(notification') = 1
             /\ notification'[1].type \in {"info", "error"}
             /\ notification'[1].msg = "rejectedBy"
             /\ notification'[1].who = currentUser
      ]_vars

\* C19 witness: an Editor has rejected an item, which is a draft again
C19_Witness ==
    /\ userIsEditor
    /\ lastOp.op = "statusChange" /\ lastOp.res = "draft"
    /\ notification # << >> /\ notification[1].type = "error"
    /\ \E k \in 1..Len(library) :
          library[k].id = lastOp.id /\ library[k].status = "draft"

\* a step of an operation that does not pass the local checks: a bulk
\* schedule by a user who is not an Editor or with an empty start date or an
\* interval below one, or an update (the save of an edit, the result of a
\* publish call) for an id that no item of the store has
LocalCheckFails ==
    \/ /\ lastOp'.op = "bulkSchedule"
       /\ (~userIsEditor \/ lastOp'.startDate = 0 \/ lastOp'.intervalDays < 1)
    \/ /\ lastOp'.op = "save" /\ lastOp'.res # "added"
       /\ lastOp'.id \notin IdsIn(library)
    \/ /\ PublishResolved
       /\ lastOp'.id \notin IdsIn(library)

----------------------------------------------------------------------------
(* Claims about the filters *)

\* part occurs in str when letter case is ignored
OccursIgnoringCase(str, part) ==
    \E i \in 0..(Len(str) - Len(part)) :
        \A j \in 1..Len(part) : toLowerChar(str[i + j]) = toLowerChar(part[j])

\* the type filter and the status filter let item through
PassesSelectors(item) ==
    /\ typeFilter = "all" \/ item.type = typeFilter
    /\ statusFilter = "all" \/ item.status = statusFilter

\* the positions of the store whose items the three conditions select
Selected ==
    { k \in 1..Len(library) :
        /\ PassesSelectors(library[k])
        /\ \/ OccursIgnoringCase(Text(library[k].title), Text(searchTerm))
           \/ OccursIgnoringCase(getAuthorEmail(library[k].authorId), Text(searchTerm)) }

\* C21: the table shows exactly the items that pass the type filter, the
\* status filter and the search (the text occurs, ignoring case, in the
\* title or in the author's e-mail), in the order of the store, each once.
C21_QueryIsOrderedSelection ==
    /\ Len(filteredLibrary) = Cardinality(Selected)
    /\ \A p \in 1..Len(filteredLibrary) :
          \E k \in Selected :
             /\ Cardinality({ j \in Selected : j <= k }) = p
             /\ filteredLibrary[p] = library[k]

\* C21 witness: with both selectors set and a search text that occurs in a
\* title only when case is ignored, the table shows the second of two items
C21_Witness ==
    /\ Len(library) = 2
    /\ typeFilter # "all" /\ statusFilter # "all" /\ searchTerm # 0
    /\ filteredLibrary = << library[2] >>
    /\ ~includes(Text(library[2].title), Text(searchTerm))
    /\ ~OccursIgnoringCase(getAuthorEmail(library[2].authorId), Text(searchTerm))

\* C22: an item whose authorId is absent or is not in the directory, and
\* that passes the type and status filters, is shown exactly when the
\* search text occurs, ignoring case, in its title or in the placeholder.
C22_UnknownAuthorPlaceholder ==
    \A k \in 1..Len(library) :
        (library[k].authorId \notin Users /\ PassesSelectors(library[k]))
        => ( (\E p \in 1..Len(filteredLibrary) : filteredLibrary[p] = library[k])
             <=> \/ OccursIgnoringCase(Text(library[k].title), Text(searchTerm))
                 \/ OccursIgnoringCase(AuthorUnknown, Text(searchTerm)) )

\* C22 witness: an item of an author that the directory does not have is
\* shown for a search text of two letters that occurs in the placeholder
\* only, and only when case is ignored
C22_Witness ==
    \E k \in 1..Len(library), p \in 1..Len(filteredLibrary) :
        /\ library[k].authorId = "ghost"
        /\ filteredLibrary[p] = library[k]
        /\ Len(Text(searchTerm)) = 2
        /\ ~OccursIgnoringCase(Text(library[k].title), Text(searchTerm))
        /\ ~includes(AuthorUnknown, Text(searchTerm))

----------------------------------------------------------------------------
(* Claims about calls, notifications and sessions *)

\* a step in which the user closes the publish dialog
DialogCloses == isPublishModalOpen /\ ~isPublishModalOpen' /\ lastOp'.op = "ui"

\* C23: the step that closes the publish dialog leaves every call in flight
\* awaited, for the same item and site; and when a call whose dialog was
\* closed resolves, every item of the store that has the call's id becomes
\* published with the site of the call and the post id and url of the answer.
C23_ClosedDialogStillPublishes ==
    [][ /\ DialogCloses =>
              /\ Len(publishCalls') = Len(publishCalls)
              /\ \A j \in 1..Len(publishCalls) :
                    /\ publishCalls'[j].id = publishCalls[j].id
                    /\ publishCalls'[j].site = publishCalls[j].site
        /\ (PublishResolved /\ lastOp'.closed) =>
              \E k \in 1..Len(publishCalls) :
                 /\ publishCalls' = RemoveAt(publishCalls, k)
                 /\ publishCalls[k].id = lastOp'.id
                 /\ \A u \in Uids(library) :
                       ItemOf(library, u).id = lastOp'.id
                       => /\ u \in Uids(library')
                          /\ ItemOf(library', u).status = "published"
                          /\ ItemOf(library', u).siteId = publishCalls[k].site
                          /\ ItemOf(library', u).wordpressId \in 1..MaxPostId
                          /\ ItemOf(library', u).wordpressUrl
                                = << publishCalls[k].site, publishCalls[k].title >>
      ]_vars

\* C23 witness: a call whose dialog was closed while it was awaited has
\* resolved, and its item is in the store, published with a post id
C23_Witness ==
    /\ lastOp.op = "publishSettled" /\ lastOp.res = "resolved" /\ lastOp.closed
    /\ \E k \in 1..Len(library) :
          /\ library[k].id = lastOp.id
          /\ library[k].status = "published"
          /\ library[k].wordpressId # 0

\* C24: every step keeps the id, the type and the authorId of every item
\* that it keeps in the store.
C24_IdentityFieldsImmutable ==
    [][ \A u \in Kept :
          /\ ItemOf(library', u).id = ItemOf(library, u).id
          /\ ItemOf(library', u).type = ItemOf(library, u).type
          /\ ItemOf(library', u).authorId = ItemOf(library, u).authorId
      ]_vars

C26_OnePublishInFlight ==
    publishCalls # << >> => ~(MaySubmit /\ userIsEditor)

\* C27: a logout leaves the store empty and no current user; an empty
\* store gets an item only in a save that adds content, taken by a logged-in
\* user who becomes the author; and the step in which a publish call made
\* before a logout settles leaves the store as it was.
C27_LogoutEmptiesStore ==
    [][ /\ LogoutStep => (library' = << >> /\ currentUser' = NoUser)
        /\ (library = << >> /\ library' # << >>)
              => /\ loggedIn
                 /\ lastOp'.op = "save" /\ lastOp'.res = "added"
                 /\ \A u \in Entered : ItemOf(library', u).authorId = currentUser
        /\ \A k \in 1..Len(publishCalls) :
              (/\ lastOp'.op = "publishSettled"
               /\ publishCalls' = RemoveAt(publishCalls, k)
               /\ ~publishCalls[k].session)
              => library' = library
      ]_vars

\* C27 witness: a publish call has resolved with nobody logged in, and the
\* store is empty
C27_Witness ==
    /\ lastOp.op = "publishSettled" /\ lastOp.res = "resolved"
    /\ currentUser = NoUser
    /\ library = << >>
    /\ publishCalls = << >>

\* the positions of the selection whose id no item of the store has
Dangling == { p \in 1..Len(selectedItems) : selectedItems[p] \notin IdsIn(library) }

\* the positions before q of the selection whose id an approved item has
ApprovedBefore(q) ==
    { r \in 1..(q - 1) :
        LET j == FindIndex(library, selectedItems[r]) IN
        j # 0 /\ library[j].status = "approved" }

\* C28: a bulk schedule whose selection holds the id of a deleted item ends
\* without an error and adds no item of that id; every selected id that an
\* approved item has is scheduled at startDate + intervalDays * (the number
\* of approved ids before it), the deleted id not counting; and the
\* selection is empty afterwards.
C28_DeletedIdInSelection ==
    [][ (BulkStep /\ Dangling # {}) =>
          /\ \A p \in Dangling : selectedItems[p] \notin IdsIn(library')
          /\ \A j \in 1..Len(notification') : notification'[j].type # "error"
          /\ Uids(library') = Uids(library)
          /\ \A q \in 1..Len(selectedItems) :
                LET k == FindIndex(library, selectedItems[q]) IN
                (k # 0 /\ library[k].status = "approved")
                => /\ ItemOf(library', library[k].uid).status = "scheduled"
                   /\ ItemOf(library', library[k].uid).scheduledFor
                         = lastOp'.startDate
                           + lastOp'.intervalDays * Cardinality(ApprovedBefore(q))
          /\ selectedItems' = << >>
      ]_vars

\* C28 witness: a bulk schedule of two ids, the first of a deleted item, has
\* given the item of the second the start date and emptied the selection
C28_Witness ==
    /\ lastOp.op = "bulkSchedule" /\ lastOp.res = "ok"
    /\ Len(lastOp.ids) = 2
    /\ lastOp.ids[1] \notin IdsIn(library)
    /\ \E k \in 1..Len(library) :
          /\ library[k].id = lastOp.ids[2]
          /\ library[k].status = "scheduled"
          /\ library[k].scheduledFor = lastOp.startDate
    /\ selectedItems = << >>

\* the users of the directory who are Writers
Writers == { w \in Users : RoleOf(w) = "writer" }

\* C29: a step taken with an Editor as the current user keeps every kept
\* draft a draft; and a draft whose authorId is not a Writer (an Editor, or
\* no known user) stays a draft in every step that keeps it.
C29_EditorDraftStaysDraft ==
    [][ \A u \in Kept :
          LET a == ItemOf(library, u)
              b == ItemOf(library', u) IN
          a.status = "draft"
          => /\ userIsEditor => b.status = "draft"
             /\ a.authorId \notin Writers => b.status = "draft"
      ]_vars

\* C29 witness: an Editor has just approved an item while the store holds a
\* draft that the Editor authored, still a draft
C29_Witness ==
    /\ userIsEditor
    /\ lastOp.op = "statusChange" /\ lastOp.res = "approved"
    /\ \E k \in 1..Len(library) :
          /\ library[k].status = "draft"
          /\ library[k].authorId = currentUser
          /\ library[k].id # lastOp.id

\* a save taken while NewContentView has an existingContent
EditSave == lastOp'.op = "save" /\ editingContent # << >>

====
